---- MODULE Spec2Model ----
(***************************************************************************)
(* Model of src/Split/parquet-splitter.py: the partition-and-mark engine   *)
(* process_kind, its key-set differ, its per-unit thread pool and the      *)
(* object store it reads and writes.                                       *)
(*                                                                         *)
(* Strings are sequences of one-character strings, so that rsplit,         *)
(* endswith, slicing, concatenation and sorted() are computed as Python    *)
(* computes them.                                                          *)
(***************************************************************************)
EXTENDS Integers, Sequences, FiniteSets, TLC

(***************************************************************************)
(* Bounds of the model.                                                    *)
(***************************************************************************)
MaxRows == 2
MaxRuns == 2
MaxInKeys == 4
MaxMarkerKeys == 2

(***************************************************************************)
(* Characters, in code-point order (Python compares str by code point).    *)
(***************************************************************************)
Alphabet ==
  <<".", "/", "0", "1", "2", "3", ":", "A", "B", "C",
    "a", "b", "c", "d", "e", "i", "j", "k", "m", "n", "o", "p", "q", "r",
    "s", "t", "u">>

Ord(c) == CHOOSE i \in 1..Len(Alphabet) : Alphabet[i] = c

\* s < t for Python str: lexicographic by code point, a proper prefix first.
RECURSIVE StrLess(_, _)
StrLess(s, t) ==
  IF t = <<>> THEN FALSE
  ELSE IF s = <<>> THEN TRUE
  ELSE IF Head(s) = Head(t) THEN StrLess(Tail(s), Tail(t))
  ELSE Ord(Head(s)) < Ord(Head(t))

\* s.endswith(suffix)
EndsWith(s, suffix) ==
  /\ Len(s) >= Len(suffix)
  /\ SubSeq(s, Len(s) - Len(suffix) + 1, Len(s)) = suffix

\* s.startswith(prefix)
StartsWith(s, prefix) ==
  /\ Len(s) >= Len(prefix)
  /\ SubSeq(s, 1, Len(prefix)) = prefix

\* s[:-n] for 0 < n: the slice is empty when n >= len(s).
DropLast(s, n) == IF n >= Len(s) THEN <<>> ELSE SubSeq(s, 1, Len(s) - n)

\* The position of the last "/" among the first n characters of k, 0 for none.
RECURSIVE LastSlash(_, _)
LastSlash(k, n) ==
  IF n = 0 THEN 0
  ELSE IF k[n] = "/" THEN n
  ELSE LastSlash(k, n - 1)

\* k.rsplit("/", 1)[-1]: what follows the last "/", the whole of k without one.
RSplitLast(k) == SubSeq(k, LastSlash(k, Len(k)) + 1, Len(k))

\* s.rstrip('/')
RECURSIVE RStripSlash(_)
RStripSlash(s) ==
  IF s = <<>> THEN <<>>
  ELSE IF s[Len(s)] = "/" THEN RStripSlash(SubSeq(s, 1, Len(s) - 1))
  ELSE s

\* prefix.rstrip('/') + '/'
NormalizePrefix(p) == RStripSlash(p) \o <<"/">>

DotParquet == <<".", "p", "a", "r", "q", "u", "e", "t">>
DotJson    == <<".", "j", "s", "o", "n">>

(***************************************************************************)
(* Configuration (module level settings of the job, read from the          *)
(* arguments or the environment and passed to process_kind by main).  The  *)
(* job runs with the settings it was started with.                         *)
(***************************************************************************)
VARIABLE cfg

IN_BUCKET     == cfg.IN_BUCKET
OUT_BUCKET    == cfg.OUT_BUCKET
IN_PREFIX     == cfg.IN_PREFIX
OUT_PREFIX    == cfg.OUT_PREFIX
MARKER_PREFIX == cfg.MARKER_PREFIX

\* Input and output in two buckets.
SeparateConfig ==
  [IN_BUCKET     |-> <<"s", "r", "c">>,
   OUT_BUCKET    |-> <<"d", "s", "t">>,
   IN_PREFIX     |-> <<"i", "n">>,
   OUT_PREFIX    |-> <<"o", "u", "t", "/">>,
   MARKER_PREFIX |-> <<"m", "k", "/", "/">>]

\* Input and output in one bucket, the input below a folder of the output
\* prefix.
SharedConfig ==
  [IN_BUCKET     |-> <<"d", "s", "t">>,
   OUT_BUCKET    |-> <<"d", "s", "t">>,
   IN_PREFIX     |-> <<"o", "u", "t", "/", "A">>,
   OUT_PREFIX    |-> <<"o", "u", "t">>,
   MARKER_PREFIX |-> <<"m", "k">>]
\* MAX_WORKERS = int(get_arg("MAX_WORKERS", "24")): any pool size can be
\* configured; the model runs with a small pool so that the cap binds.
MAX_WORKERS   == 2
KIND          == <<"k">>

in_prefix     == NormalizePrefix(IN_PREFIX)
out_prefix    == NormalizePrefix(OUT_PREFIX)
marker_prefix == NormalizePrefix(MARKER_PREFIX)

(***************************************************************************)
(* KeySetDiffer.                                                           *)
(***************************************************************************)
\* Faulty variant: the suffix test of line 67 is missing.
RECURSIVE extract_dates_no_suffix_test(_)
extract_dates_no_suffix_test(keys) ==
  IF keys = <<>> THEN {}
  ELSE {DropLast(RSplitLast(Head(keys)), 8)}
         \cup extract_dates_no_suffix_test(Tail(keys))

\* for k in keys: base = k.rsplit("/",1)[-1]; if base.endswith(".parquet"):
\*   dates.add(base[:-8])
RECURSIVE extract_dates_from_keys(_)
extract_dates_from_keys(keys) ==
  IF keys = <<>> THEN {}
  ELSE LET base == RSplitLast(Head(keys))
           rest == extract_dates_from_keys(Tail(keys))
       IN  IF EndsWith(base, DotParquet)
           THEN rest \cup {DropLast(base, 8)}
           ELSE rest

\* Faulty variant: the marker suffix is cut one character short (base[:-4]).
RECURSIVE extract_marker_dates_short_cut(_)
extract_marker_dates_short_cut(keys) ==
  IF keys = <<>> THEN {}
  ELSE LET base == RSplitLast(Head(keys))
           rest == extract_marker_dates_short_cut(Tail(keys))
       IN  IF EndsWith(base, DotJson)
           THEN rest \cup {DropLast(base, 4)}
           ELSE rest

RECURSIVE extract_dates_from_marker_keys(_)
extract_dates_from_marker_keys(keys) ==
  IF keys = <<>> THEN {}
  ELSE LET base == RSplitLast(Head(keys))
           rest == extract_dates_from_marker_keys(Tail(keys))
       IN  IF EndsWith(base, DotJson)
           THEN rest \cup {DropLast(base, 5)}
           ELSE rest

\* Faulty variant: the greatest element first (sorted(S, reverse=True)).
RECURSIVE sorted_descending(_)
sorted_descending(S) ==
  IF S = {} THEN <<>>
  ELSE LET m == CHOOSE x \in S : \A y \in S \ {x} : StrLess(y, x)
       IN  <<m>> \o sorted_descending(S \ {m})

\* sorted(S) for a set of str: the least element first, then the rest.
RECURSIVE sorted(_)
sorted(S) ==
  IF S = {} THEN <<>>
  ELSE LET m == CHOOSE x \in S : \A y \in S \ {x} : StrLess(x, y)
       IN  <<m>> \o sorted(S \ {m})


(***************************************************************************)
(* Tables (pandas DataFrame as decoded from one input object).  A table    *)
(* has a set of columns and nrows rows; when it has the column Item_ID,    *)
(* Item_ID[i] is the key value of row i, Null for a missing value          *)
(* (None / NaN).  Rows are identified by their position.                   *)
(***************************************************************************)
Null    == <<"<NA>">>
ItemIDs == {<<"A">>, <<"B">>}

\* The elements of a list.
Range(q) == {q[i] : i \in 1..Len(q)}

SeqsUpTo(S, n) == UNION {[1..k -> S] : k \in 0..n}

Tables ==
  {[columns |-> {"Item_ID", "val"}, nrows |-> Len(s), Item_ID |-> s] :
      s \in SeqsUpTo(ItemIDs \cup {Null}, MaxRows)}
  \cup
  {[columns |-> c, nrows |-> n, Item_ID |-> <<>>] :
      c \in {{}, {"val"}}, n \in 0..MaxRows}

\* Faulty variant: only a table without columns counts as empty.
empty_without_columns(df) == df.columns = {}

\* df.empty: any axis of length 0.
empty(df) == df.nrows = 0 \/ df.columns = {}

\* The rows i of 1..n whose key is v, in ascending order.
RECURSIVE RowsWith(_, _, _)
RowsWith(df, v, n) ==
  IF n = 0 THEN <<>>
  ELSE IF df.Item_ID[n] = v THEN Append(RowsWith(df, v, n - 1), n)
  ELSE RowsWith(df, v, n - 1)

\* df.groupby("Item_ID"): one group per key value present, in ascending key
\* order (sort=True); rows whose key is missing belong to no group
\* (dropna=True).  Each group keeps its rows in table order.
GroupKeys(df) == {df.Item_ID[i] : i \in 1..df.nrows} \ {Null}

RECURSIVE GroupsOf(_, _)
GroupsOf(df, ks) ==
  IF ks = <<>> THEN <<>>
  ELSE <<[Item_ID |-> Head(ks), rows |-> RowsWith(df, Head(ks), df.nrows)]>>
       \o GroupsOf(df, Tail(ks))

groupby(df) == GroupsOf(df, sorted(GroupKeys(df)))

\* df['Item_ID'].nunique(): distinct values, missing values not counted.
nunique(df) == Cardinality(GroupKeys(df))

(***************************************************************************)
(* Keys and locations.                                                     *)
(***************************************************************************)
\* in_key = f"{in_prefix}{date}.parquet"
InKey(date) == in_prefix \o date \o DotParquet
\* Faulty variant: the unit is left out of the key.
OutKey_without_unit(Item_ID, date) == out_prefix \o Item_ID \o DotParquet

\* out_key = f"{out_prefix}{Item_ID}/{date}.parquet"
OutKey(Item_ID, date) == out_prefix \o Item_ID \o <<"/">> \o date \o DotParquet
\* marker_key = f"{marker_prefix}{date}.json"
MarkerKey(date) == marker_prefix \o date \o DotJson
\* f"s3://{bucket}/{key}"
S3Url(bucket, key) == <<"s", "3", ":", "/", "/">> \o bucket \o <<"/">> \o key

(***************************************************************************)
(* The object store: a function from <<bucket, key>> to the object.        *)
(***************************************************************************)
PutObject(st, bucket, key, obj) ==
  [x \in DOMAIN st \cup {<<bucket, key>>} |->
     IF x = <<bucket, key>> THEN obj ELSE st[x]]

\* list_objects_v2 pages, filtered by k.endswith(suffix); S3 lists the keys
\* under the prefix in ascending order.
list_keys_with_suffix(st, bucket, prefix, suffix) ==
  sorted({x[2] : x \in {y \in DOMAIN st :
              /\ y[1] = bucket
              /\ StartsWith(y[2], prefix)
              /\ EndsWith(y[2], suffix)}})

\* The keys of the input bucket of the model: one object per unit directly
\* under the prefix, and one below a sub-prefix, which the listing returns
\* and whose unit has no object at {in_prefix}{date}.parquet.
Date1 == <<"1">>
Date2 == <<"2">>
Date0 == <<"0">>
NestedKey == in_prefix \o <<"s", "u", "b", "/">> \o Date0 \o DotParquet

UnitStates ==
  {"Pending", "Loaded", "Partitioned", "Written", "Marked",
   "SkippedMissing", "SkippedEmpty", "Aborted"}

VARIABLES
  store,            \* the object store
  run,              \* number of the current invocation of process_kind
  pc,               \* position of the control thread
  in_keys, marker_keys, input_dates, done_dates, missing_dates,
  idx,              \* position of the for loop in missing_dates
  processed,
  df,               \* the table loaded for the current unit
  groups,           \* groups the groupby loop has not yet submitted
  futures,          \* futures of the current unit, in submission order
  outputs_written,
  done_order,       \* indices of the finished futures, in finishing order
  finished0,        \* futures already finished when as_completed was called
  ustate,           \* state of each outstanding unit in this run
  calls,            \* get-object / put-object calls issued in this run
  prev              \* how the previous run ended: its pc, its ustate and
                    \* the units whose marker put failed in it

vars ==
  <<cfg, store, run, pc, in_keys, marker_keys, input_dates, done_dates,
    missing_dates, idx, processed, df, groups, futures, outputs_written,
    done_order, finished0, ustate, calls, prev>>

NoTable == [columns |-> {}, nrows |-> 0, Item_ID |-> <<>>]

date == missing_dates[idx]

\* The tables of the later unit: one with two partitions, one of zero rows,
\* one without the column Item_ID.
LaterTables ==
  {[columns |-> {"Item_ID", "val"}, nrows |-> 2,
    Item_ID |-> <<<<"B">>, <<"A">>>>],
   [columns |-> {"Item_ID", "val"}, nrows |-> 0, Item_ID |-> <<>>],
   [columns |-> {"val"}, nrows |-> 1, Item_ID |-> <<>>]}

\* The first unit holds any table, the second one of LaterTables; the key
\* below the sub-prefix is there or not.  No marker and no output yet.
InitStores ==
  {[x \in {<<IN_BUCKET, InKey(Date1)>>, <<IN_BUCKET, InKey(Date2)>>} \cup n |->
      [type |-> "table",
       table |-> IF x = <<IN_BUCKET, InKey(Date1)>> THEN t1
                 ELSE IF x = <<IN_BUCKET, InKey(Date2)>> THEN t2
                 ELSE NoTable]] :
     t1 \in Tables, t2 \in LaterTables, n \in {{}, {<<IN_BUCKET, NestedKey>>}}}

RunLocals ==
  /\ pc = "start"
  /\ in_keys = <<>>
  /\ marker_keys = <<>>
  /\ input_dates = {}
  /\ done_dates = {}
  /\ missing_dates = <<>>
  /\ idx = 1
  /\ processed = 0
  /\ df = NoTable
  /\ groups = <<>>
  /\ futures = <<>>
  /\ outputs_written = <<>>
  /\ done_order = <<>>
  /\ finished0 = {}
  /\ ustate = <<>>
  /\ calls = {}

Init ==
  /\ cfg = SeparateConfig
  /\ store \in InitStores
  /\ run = 1
  /\ prev = [pc |-> "none", ustate |-> <<>>, mark_failed |-> {}]
  /\ RunLocals

(***************************************************************************)
(* The worker pool (ThreadPoolExecutor) of the current unit.  A future is  *)
(* pending (queued), running (a worker is in write_one_partition), done    *)
(* or failed; seen is set once as_completed has yielded it.                *)
(***************************************************************************)
Running  == {i \in 1..Len(futures) : futures[i].st = "running"}
Finished == {i \in 1..Len(futures) : futures[i].st \in {"done", "failed"}}
PoolOpen == pc \in {"pool", "collect", "unwind"}

\* Faulty variant: a thread is started for every queued task, whatever
\* max_workers says.
TaskStart_uncapped ==
  /\ PoolOpen
  /\ \E i \in 1..Len(futures) :
       /\ futures[i].st = "pending"
       /\ \A j \in 1..(i - 1) : futures[j].st # "pending"
       /\ futures' = [futures EXCEPT ![i].st = "running"]
  /\ UNCHANGED <<cfg, store, run, pc, in_keys, marker_keys, input_dates,
                 done_dates, missing_dates, idx, processed, df, groups,
                 outputs_written, done_order, finished0, ustate, calls, prev>>

\* The executor's work queue is FIFO and at most max_workers threads exist.
TaskStart ==
  /\ PoolOpen
  /\ Cardinality(Running) < MAX_WORKERS
  /\ \E i \in 1..Len(futures) :
       /\ futures[i].st = "pending"
       /\ \A j \in 1..(i - 1) : futures[j].st # "pending"
       /\ futures' = [futures EXCEPT ![i].st = "running"]
  /\ UNCHANGED <<cfg, store, run, pc, in_keys, marker_keys, input_dates,
                 done_dates, missing_dates, idx, processed, df, groups,
                 outputs_written, done_order, finished0, ustate, calls, prev>>

\* Faulty variant: the task swallows the failure of put_object and returns out_key.
TaskDone_put_error_swallowed ==
  /\ PoolOpen
  /\ \E i \in Running :
       /\ futures' = [futures EXCEPT ![i].st = "done"]
       /\ done_order' = Append(done_order, i)
       /\ calls' = calls \cup
            {[op |-> "put", bucket |-> OUT_BUCKET,
              key |-> futures[i].out_key, ok |-> FALSE]}
  /\ UNCHANGED <<cfg, store, run, pc, in_keys, marker_keys, input_dates,
                 done_dates, missing_dates, idx, processed, df, groups,
                 outputs_written, finished0, ustate, prev>>

\* write_one_partition: encode, put_object, return out_key.
TaskDone ==
  /\ PoolOpen
  /\ \E i \in Running :
       /\ futures' = [futures EXCEPT ![i].st = "done"]
       /\ done_order' = Append(done_order, i)
       /\ store' = PutObject(store, OUT_BUCKET, futures[i].out_key,
                     [type |-> "part", date |-> futures[i].date,
                      columns |-> df.columns,
                      Item_ID |-> futures[i].Item_ID_df.Item_ID,
                      rows |-> futures[i].Item_ID_df.rows])
       /\ calls' = calls \cup
            {[op |-> "put", bucket |-> OUT_BUCKET,
              key |-> futures[i].out_key, ok |-> TRUE]}
  /\ UNCHANGED <<cfg, run, pc, in_keys, marker_keys, input_dates, done_dates,
                 missing_dates, idx, processed, df, groups, outputs_written,
                 finished0, ustate, prev>>

\* write_one_partition raises (put_object fails): nothing is stored.
TaskFail ==
  /\ PoolOpen
  /\ \E i \in Running :
       /\ futures' = [futures EXCEPT ![i].st = "failed"]
       /\ done_order' = Append(done_order, i)
       /\ calls' = calls \cup
            {[op |-> "put", bucket |-> OUT_BUCKET,
              key |-> futures[i].out_key, ok |-> FALSE]}
  /\ UNCHANGED <<cfg, store, run, pc, in_keys, marker_keys, input_dates,
                 done_dates, missing_dates, idx, processed, df, groups,
                 outputs_written, finished0, ustate, prev>>

(***************************************************************************)
(* process_kind, the control thread.                                       *)
(***************************************************************************)
\* Faulty variant: the done units are not subtracted (sorted(input_dates)).
ListAndDiff_without_done ==
  /\ pc = "start"
  /\ \E iks \in {list_keys_with_suffix(store, IN_BUCKET, in_prefix,
                                        DotParquet)},
        mks \in {list_keys_with_suffix(store, OUT_BUCKET, marker_prefix,
                                        DotJson)} :
       \E ids \in {extract_dates_from_keys(iks)},
          dds \in {extract_dates_from_marker_keys(mks)} :
         \E md \in {sorted(ids)} :
           /\ in_keys' = iks
           /\ marker_keys' = mks
           /\ input_dates' = ids
           /\ done_dates' = dds
           /\ missing_dates' = md
           /\ ustate' = [d \in Range(md) |-> "Pending"]
  /\ processed' = 0
  /\ idx' = 1
  /\ pc' = "loop"
  /\ UNCHANGED <<cfg, store, run, df, groups, futures, outputs_written,
                 done_order, finished0, calls, prev>>

\* Lines 125-143: both listings, the diff, processed = 0.  Each local is
\* bound to its value once.
ListAndDiff ==
  /\ pc = "start"
  /\ \E iks \in {list_keys_with_suffix(store, IN_BUCKET, in_prefix,
                                        DotParquet)},
        mks \in {list_keys_with_suffix(store, OUT_BUCKET, marker_prefix,
                                        DotJson)} :
       \E ids \in {extract_dates_from_keys(iks)},
          dds \in {extract_dates_from_marker_keys(mks)} :
         \E md \in {sorted(ids \ dds)} :
           /\ in_keys' = iks
           /\ marker_keys' = mks
           /\ input_dates' = ids
           /\ done_dates' = dds
           /\ missing_dates' = md
           /\ ustate' = [d \in Range(md) |-> "Pending"]
  /\ processed' = 0
  /\ idx' = 1
  /\ pc' = "loop"
  /\ UNCHANGED <<cfg, store, run, df, groups, futures, outputs_written,
                 done_order, finished0, calls, prev>>

\* A listing raises: the exception leaves process_kind.
ListFail ==
  /\ pc = "start"
  /\ pc' = "aborted"
  /\ UNCHANGED <<cfg, store, run, in_keys, marker_keys, input_dates, done_dates,
                 missing_dates, idx, processed, df, groups, futures,
                 outputs_written, done_order, finished0, ustate, calls, prev>>

GetCall(ok) ==
  [op |-> "get", bucket |-> IN_BUCKET, key |-> InKey(date), ok |-> ok]

AtUnit == pc = "loop" /\ idx <= Len(missing_dates)

\* Faulty variant: NoSuchKey is not caught.
LoadMissing_not_caught ==
  /\ AtUnit
  /\ <<IN_BUCKET, InKey(date)>> \notin DOMAIN store
  /\ ustate' = [ustate EXCEPT ![date] = "Aborted"]
  /\ calls' = calls \cup {GetCall(FALSE)}
  /\ pc' = "aborted"
  /\ UNCHANGED <<cfg, store, run, in_keys, marker_keys, input_dates, done_dates,
                 missing_dates, idx, processed, df, groups, futures,
                 outputs_written, done_order, finished0, prev>>

\* Lines 147-152: get_object raises NoSuchKey; continue.
LoadMissing ==
  /\ AtUnit
  /\ <<IN_BUCKET, InKey(date)>> \notin DOMAIN store
  /\ ustate' = [ustate EXCEPT ![date] = "SkippedMissing"]
  /\ calls' = calls \cup {GetCall(FALSE)}
  /\ idx' = idx + 1
  /\ UNCHANGED <<cfg, store, run, pc, in_keys, marker_keys, input_dates,
                 done_dates, missing_dates, processed, df, groups, futures,
                 outputs_written, done_order, finished0, prev>>

\* Line 148: get_object or read_parquet raises anything else; not caught.
LoadFail ==
  /\ AtUnit
  /\ <<IN_BUCKET, InKey(date)>> \in DOMAIN store
  /\ ustate' = [ustate EXCEPT ![date] = "Aborted"]
  /\ calls' = calls \cup {GetCall(FALSE)}
  /\ pc' = "aborted"
  /\ UNCHANGED <<cfg, store, run, in_keys, marker_keys, input_dates, done_dates,
                 missing_dates, idx, processed, df, groups, futures,
                 outputs_written, done_order, finished0, prev>>

\* pd.read_parquet of the body of a parquet object: an input object gives
\* its table; a partition written by df.to_parquet(index=False) gives the
\* rows of the group, renumbered, under the columns of the table it was cut
\* from.
read_parquet(obj) ==
  IF obj.type = "table" THEN obj.table
  ELSE [columns |-> obj.columns, nrows |-> Len(obj.rows),
        Item_ID |-> [n \in 1..Len(obj.rows) |-> obj.Item_ID]]

\* The tables the parquet objects of the store decode to.
StoredTables ==
  {read_parquet(store[x]) :
     x \in {y \in DOMAIN store : store[y].type \in {"table", "part"}}}

Loaded(t) ==
  /\ AtUnit
  /\ <<IN_BUCKET, InKey(date)>> \in DOMAIN store
  /\ t = read_parquet(store[<<IN_BUCKET, InKey(date)>>])
  /\ df' = t
  /\ calls' = calls \cup {GetCall(TRUE)}

\* Lines 154-156: df.empty; continue.
LoadEmpty ==
  /\ \E t \in StoredTables :
       /\ Loaded(t)
       /\ empty(t)
  /\ ustate' = [ustate EXCEPT ![date] = "SkippedEmpty"]
  /\ idx' = idx + 1
  /\ UNCHANGED <<cfg, store, run, pc, in_keys, marker_keys, input_dates,
                 done_dates, missing_dates, processed, groups, futures,
                 outputs_written, done_order, finished0, prev>>

\* Faulty variant: a table without the column is skipped like an empty one.
LoadNoItemID_skipped ==
  /\ \E t \in StoredTables :
       /\ Loaded(t)
       /\ ~empty(t)
       /\ "Item_ID" \notin t.columns
  /\ ustate' = [ustate EXCEPT ![date] = "SkippedEmpty"]
  /\ idx' = idx + 1
  /\ UNCHANGED <<cfg, store, run, pc, in_keys, marker_keys, input_dates,
                 done_dates, missing_dates, processed, groups, futures,
                 outputs_written, done_order, finished0, prev>>

\* Lines 158-159: raise ValueError.
LoadNoItemID ==
  /\ \E t \in StoredTables :
       /\ Loaded(t)
       /\ ~empty(t)
       /\ "Item_ID" \notin t.columns
  /\ ustate' = [ustate EXCEPT ![date] = "Aborted"]
  /\ pc' = "aborted"
  /\ UNCHANGED <<cfg, store, run, in_keys, marker_keys, input_dates, done_dates,
                 missing_dates, idx, processed, groups, futures,
                 outputs_written, done_order, finished0, prev>>

\* Lines 162-166: outputs_written = [], futures = [], the pool is created
\* and the groupby iteration starts.
LoadOk ==
  /\ \E t \in StoredTables :
       /\ Loaded(t)
       /\ ~empty(t)
       /\ "Item_ID" \in t.columns
       /\ groups' = groupby(t)
  /\ outputs_written' = <<>>
  /\ futures' = <<>>
  /\ done_order' = <<>>
  /\ finished0' = {}
  /\ ustate' = [ustate EXCEPT ![date] = "Partitioned"]
  /\ pc' = "pool"
  /\ UNCHANGED <<cfg, store, run, in_keys, marker_keys, input_dates, done_dates,
                 missing_dates, idx, processed, prev>>

\* Lines 166-168: one ex.submit per group.
Submit ==
  /\ pc = "pool"
  /\ groups # <<>>
  /\ futures' = Append(futures,
       [date |-> date, Item_ID_df |-> Head(groups),
        out_key |-> OutKey(Head(groups).Item_ID, date),
        st |-> "pending", seen |-> FALSE])
  /\ groups' = Tail(groups)
  /\ UNCHANGED <<cfg, store, run, pc, in_keys, marker_keys, input_dates,
                 done_dates, missing_dates, idx, processed, df,
                 outputs_written, done_order, finished0, ustate, calls, prev>>

\* Line 169: as_completed(futures) is entered once every group has been
\* submitted; it snapshots the futures that have already finished.
AsCompleted ==
  /\ pc = "pool"
  /\ groups = <<>>
  /\ finished0' = Finished
  /\ pc' = "collect"
  /\ UNCHANGED <<cfg, store, run, in_keys, marker_keys, input_dates, done_dates,
                 missing_dates, idx, processed, df, groups, futures,
                 outputs_written, done_order, ustate, calls, prev>>

\* The futures as_completed can yield next: any future of the snapshot not
\* yet yielded (the snapshot is a set: its iteration order is arbitrary),
\* and after those the futures that finished later, in finishing order.
Unseen == {i \in 1..Len(futures) : ~futures[i].seen}

FirstUnseen ==
  LET js == {j \in 1..Len(done_order) : done_order[j] \in Unseen}
  IN  IF js = {} THEN {}
      ELSE {done_order[CHOOSE j \in js : \A k \in js : j <= k]}

Yieldable ==
  IF finished0 \cap Unseen # {} THEN finished0 \cap Unseen ELSE FirstUnseen

\* Faulty variant: outputs_written is assigned instead of appended to.
Collect_assigns ==
  /\ pc = "collect"
  /\ \E i \in Yieldable :
       /\ futures[i].st = "done"
       /\ futures' = [futures EXCEPT ![i].seen = TRUE]
       /\ outputs_written' = <<S3Url(OUT_BUCKET, futures[i].out_key)>>
  /\ UNCHANGED <<cfg, store, run, pc, in_keys, marker_keys, input_dates,
                 done_dates, missing_dates, idx, processed, df, groups,
                 done_order, finished0, ustate, calls, prev>>

\* Lines 169-171: as_completed yields a future and f.result() returns its
\* out_key.
Collect ==
  /\ pc = "collect"
  /\ \E i \in Yieldable :
       /\ futures[i].st = "done"
       /\ futures' = [futures EXCEPT ![i].seen = TRUE]
       /\ outputs_written' =
            Append(outputs_written, S3Url(OUT_BUCKET, futures[i].out_key))
  /\ UNCHANGED <<cfg, store, run, pc, in_keys, marker_keys, input_dates,
                 done_dates, missing_dates, idx, processed, df, groups,
                 done_order, finished0, ustate, calls, prev>>

\* Faulty variant: the failure of a task is caught per future and the loop goes on.
CollectFailure_caught ==
  /\ pc = "collect"
  /\ \E i \in Yieldable :
       /\ futures[i].st = "failed"
       /\ futures' = [futures EXCEPT ![i].seen = TRUE]
  /\ UNCHANGED <<cfg, store, run, pc, in_keys, marker_keys, input_dates,
                 done_dates, missing_dates, idx, processed, df, groups,
                 outputs_written, done_order, finished0, ustate, calls, prev>>

\* Faulty variant: on the failure the queued tasks are cancelled
\* (shutdown(cancel_futures=True)): they end without having run.
CollectFailure_cancelling ==
  /\ pc = "collect"
  /\ \E i \in Yieldable :
       /\ futures[i].st = "failed"
       /\ futures' =
            [j \in 1..Len(futures) |->
               IF j = i THEN [futures[j] EXCEPT !.seen = TRUE]
               ELSE IF futures[j].st = "pending"
                    THEN [futures[j] EXCEPT !.st = "failed"]
                    ELSE futures[j]]
  /\ pc' = "unwind"
  /\ UNCHANGED <<cfg, store, run, in_keys, marker_keys, input_dates, done_dates,
                 missing_dates, idx, processed, df, groups, outputs_written,
                 done_order, finished0, ustate, calls, prev>>

\* Line 170: f.result() re-raises the task's exception; the with block is
\* left through ThreadPoolExecutor.__exit__, i.e. shutdown(wait=True).
CollectFailure ==
  /\ pc = "collect"
  /\ \E i \in Yieldable :
       /\ futures[i].st = "failed"
       /\ futures' = [futures EXCEPT ![i].seen = TRUE]
  /\ pc' = "unwind"
  /\ UNCHANGED <<cfg, store, run, in_keys, marker_keys, input_dates, done_dates,
                 missing_dates, idx, processed, df, groups, outputs_written,
                 done_order, finished0, ustate, calls, prev>>

\* Faulty variant: the pool is shut down without waiting
\* (shutdown(wait=False)) and the exception leaves at once.
Unwind_without_join ==
  /\ pc = "unwind"
  /\ ustate' = [ustate EXCEPT ![date] = "Aborted"]
  /\ pc' = "aborted"
  /\ UNCHANGED <<cfg, store, run, in_keys, marker_keys, input_dates, done_dates,
                 missing_dates, idx, processed, df, groups, futures,
                 outputs_written, done_order, finished0, calls, prev>>

\* Faulty variant: the pool's exit waits for every result to be collected,
\* which the control thread, having left the loop, no longer does.
Unwind_waiting_for_results ==
  /\ pc = "unwind"
  /\ \A i \in 1..Len(futures) : futures[i].seen
  /\ ustate' = [ustate EXCEPT ![date] = "Aborted"]
  /\ pc' = "aborted"
  /\ UNCHANGED <<cfg, store, run, in_keys, marker_keys, input_dates, done_dates,
                 missing_dates, idx, processed, df, groups, futures,
                 outputs_written, done_order, finished0, calls, prev>>

\* shutdown(wait=True) returns once every submitted task has run; the
\* exception then leaves process_kind.
Unwind ==
  /\ pc = "unwind"
  /\ Finished = 1..Len(futures)
  /\ ustate' = [ustate EXCEPT ![date] = "Aborted"]
  /\ pc' = "aborted"
  /\ UNCHANGED <<cfg, store, run, in_keys, marker_keys, input_dates, done_dates,
                 missing_dates, idx, processed, df, groups, futures,
                 outputs_written, done_order, finished0, calls, prev>>

\* Faulty variant: the pool is left after the first result (wait=False, no join).
ExitPool_after_first ==
  /\ pc = "collect"
  /\ \E i \in 1..Len(futures) : futures[i].seen
  /\ ustate' = [ustate EXCEPT ![date] = "Written"]
  /\ pc' = "mark"
  /\ UNCHANGED <<cfg, store, run, in_keys, marker_keys, input_dates, done_dates,
                 missing_dates, idx, processed, df, groups, futures,
                 outputs_written, done_order, finished0, calls, prev>>

\* The as_completed loop ends (every future yielded) and the with block is
\* left normally.
ExitPool ==
  /\ pc = "collect"
  /\ \A i \in 1..Len(futures) : futures[i].seen
  /\ ustate' = [ustate EXCEPT ![date] = "Written"]
  /\ pc' = "mark"
  /\ UNCHANGED <<cfg, store, run, in_keys, marker_keys, input_dates, done_dates,
                 missing_dates, idx, processed, df, groups, futures,
                 outputs_written, done_order, finished0, calls, prev>>

marker_doc ==
  [kind |-> KIND, date |-> date,
   input_key |-> S3Url(IN_BUCKET, InKey(date)),
   outputs |-> outputs_written,
   output_count |-> Len(outputs_written)]

MarkerCall(ok) ==
  [op |-> "put", bucket |-> OUT_BUCKET, key |-> MarkerKey(date), ok |-> ok]

\* Lines 176-188: put_json succeeds; processed += 1; next unit.  The
\* iteration is over: its futures and its outputs_written are not read
\* again (lines 162-163 rebind them), and the model drops them here.
Mark ==
  /\ pc = "mark"
  /\ store' = PutObject(store, OUT_BUCKET, MarkerKey(date),
                [type |-> "marker", doc |-> marker_doc])
  /\ calls' = calls \cup {MarkerCall(TRUE)}
  /\ ustate' = [ustate EXCEPT ![date] = "Marked"]
  /\ processed' = processed + 1
  /\ idx' = idx + 1
  /\ pc' = "loop"
  /\ futures' = <<>>
  /\ outputs_written' = <<>>
  /\ done_order' = <<>>
  /\ finished0' = {}
  /\ UNCHANGED <<cfg, run, in_keys, marker_keys, input_dates, done_dates,
                 missing_dates, df, groups, prev>>

\* Faulty variant: the failure of put_json is caught and the loop goes on.
MarkFail_caught ==
  /\ pc = "mark"
  /\ calls' = calls \cup {MarkerCall(FALSE)}
  /\ ustate' = [ustate EXCEPT ![date] = "Aborted"]
  /\ idx' = idx + 1
  /\ pc' = "loop"
  /\ futures' = <<>>
  /\ outputs_written' = <<>>
  /\ done_order' = <<>>
  /\ finished0' = {}
  /\ UNCHANGED <<cfg, store, run, in_keys, marker_keys, input_dates, done_dates,
                 missing_dates, processed, df, groups, prev>>

\* Line 185: put_json raises; not caught.
MarkFail ==
  /\ pc = "mark"
  /\ calls' = calls \cup {MarkerCall(FALSE)}
  /\ ustate' = [ustate EXCEPT ![date] = "Aborted"]
  /\ pc' = "aborted"
  /\ UNCHANGED <<cfg, store, run, in_keys, marker_keys, input_dates, done_dates,
                 missing_dates, idx, processed, df, groups, futures,
                 outputs_written, done_order, finished0, prev>>

\* Faulty variant: processed_days counts every unit the loop went through.
summary_counting_skipped ==
  [kind |-> KIND, input_files |-> Cardinality(input_dates),
   output_files |-> Cardinality(done_dates),
   missing_dates |-> missing_dates, processed_days |-> Len(missing_dates)]

\* Lines 190-196: the loop is exhausted and the summary is returned.
summary ==
  [kind |-> KIND, input_files |-> Cardinality(input_dates),
   output_files |-> Cardinality(done_dates),
   missing_dates |-> missing_dates, processed_days |-> processed]

Return ==
  /\ pc = "loop"
  /\ idx > Len(missing_dates)
  /\ pc' = "done"
  /\ UNCHANGED <<cfg, store, run, in_keys, marker_keys, input_dates, done_dates,
                 missing_dates, idx, processed, df, groups, futures,
                 outputs_written, done_order, finished0, ustate, calls, prev>>

\* The job is invoked again (main), against the store as the last run left it.
NewRun ==
  /\ pc \in {"done", "aborted"}
  /\ run < MaxRuns
  /\ run' = run + 1
  /\ pc' = "start"
  /\ in_keys' = <<>>
  /\ marker_keys' = <<>>
  /\ input_dates' = {}
  /\ done_dates' = {}
  /\ missing_dates' = <<>>
  /\ idx' = 1
  /\ processed' = 0
  /\ df' = NoTable
  /\ groups' = <<>>
  /\ futures' = <<>>
  /\ outputs_written' = <<>>
  /\ done_order' = <<>>
  /\ finished0' = {}
  /\ ustate' = <<>>
  /\ calls' = {}
  /\ prev' = [pc |-> pc, ustate |-> ustate,
              mark_failed |->
                {d \in DOMAIN ustate :
                   [op |-> "put", bucket |-> OUT_BUCKET, key |-> MarkerKey(d),
                    ok |-> FALSE] \in calls}]
  /\ UNCHANGED <<cfg, store>>

Next ==
  \/ ListAndDiff
  \/ ListFail
  \/ LoadMissing
  \/ LoadFail
  \/ LoadEmpty
  \/ LoadNoItemID
  \/ LoadOk
  \/ Submit
  \/ TaskStart
  \/ TaskDone
  \/ TaskFail
  \/ AsCompleted
  \/ Collect
  \/ CollectFailure
  \/ Unwind
  \/ ExitPool
  \/ Mark
  \/ MarkFail
  \/ Return
  \/ NewRun

Spec == Init /\ [][Next]_vars

\* The control thread runs while it can (a single thread drives the loop),
\* the workers of the pool run while they have a task, and every store call
\* returns, with a result or with an error.  Nothing makes the job be
\* invoked again.
ControlStep ==
  \/ ListAndDiff
  \/ ListFail
  \/ LoadMissing
  \/ LoadFail
  \/ LoadEmpty
  \/ LoadNoItemID
  \/ LoadOk
  \/ Submit
  \/ AsCompleted
  \/ Collect
  \/ CollectFailure
  \/ Unwind
  \/ ExitPool
  \/ Mark
  \/ MarkFail
  \/ Return

WorkerStep ==
  \/ TaskStart
  \/ TaskDone
  \/ TaskFail

\* The stores of the fair specification: the first unit holds one of the
\* tables of the later unit or a table whose only key is missing.
FairStores ==
  {s \in InitStores :
     s[<<IN_BUCKET, InKey(Date1)>>].table \in
       LaterTables \cup
         {[columns |-> {"Item_ID", "val"}, nrows |-> 1, Item_ID |-> <<Null>>]}}

InitFair ==
  /\ cfg = SeparateConfig
  /\ store \in FairStores
  /\ run = 1
  /\ prev = [pc |-> "none", ustate |-> <<>>, mark_failed |-> {}]
  /\ RunLocals

\* A unit with more partitions than the pool has workers: the first unit
\* holds a table of three key values, the later unit a table of zero rows
\* or one without the column Item_ID.
PoolTable ==
  [columns |-> {"Item_ID", "val"}, nrows |-> 3,
   Item_ID |-> <<<<"C">>, <<"A">>, <<"B">>>>]

PoolStores ==
  {[x \in {<<IN_BUCKET, InKey(Date1)>>, <<IN_BUCKET, InKey(Date2)>>} \cup n |->
      [type |-> "table",
       table |-> IF x = <<IN_BUCKET, InKey(Date1)>> THEN PoolTable
                 ELSE IF x = <<IN_BUCKET, InKey(Date2)>> THEN t2
                 ELSE NoTable]] :
     t2 \in {t \in LaterTables : empty(t) \/ "Item_ID" \notin t.columns},
     n \in {{}, {<<IN_BUCKET, NestedKey>>}}}

InitPool ==
  /\ cfg = SeparateConfig
  /\ store \in PoolStores
  /\ run = 1
  /\ prev = [pc |-> "none", ustate |-> <<>>, mark_failed |-> {}]
  /\ RunLocals

SpecPool == InitPool /\ [][Next]_vars

\* The job configured with one bucket for input and output, the input
\* prefix being the folder the output prefix gives the key value "A".
InitShared ==
  /\ cfg = SharedConfig
  /\ store \in InitStores
  /\ run = 1
  /\ prev = [pc |-> "none", ustate |-> <<>>, mark_failed |-> {}]
  /\ RunLocals

SpecShared == InitShared /\ [][Next]_vars

SpecFair ==
  /\ InitFair
  /\ [][Next]_vars
  /\ WF_vars(ControlStep)
  /\ WF_vars(WorkerStep)

TypeOK ==
  /\ pc \in {"start", "diff", "diffed", "loop", "pool", "collect", "unwind",
            "mark", "done", "aborted"}
  /\ run \in 1..MaxRuns
  /\ \A d \in DOMAIN ustate : ustate[d] \in UnitStates

(***************************************************************************)
(* The key-set differ on its own: lines 135-138 applied to arbitrary       *)
(* listings (with repeated keys, keys below sub-prefixes and keys of       *)
(* another suffix).                                                        *)
(***************************************************************************)
InListingKeys ==
  {in_prefix \o <<"1">> \o DotParquet,
   in_prefix \o <<"2">> \o DotParquet,
   in_prefix \o <<"1", "0">> \o DotParquet,
   in_prefix \o <<"s", "u", "b", "/", "1">> \o DotParquet,
   in_prefix \o <<"1">> \o DotJson}

MarkerListingKeys ==
  {marker_prefix \o <<"1">> \o DotJson,
   marker_prefix \o <<"s", "u", "b", "/", "1", "0">> \o DotJson,
   marker_prefix \o <<"2">> \o DotParquet}

InitDiff ==
  /\ cfg = SeparateConfig
  /\ store = <<>>
  /\ run = 1
  /\ prev = [pc |-> "none", ustate |-> <<>>, mark_failed |-> {}]
  /\ pc = "diff"
  /\ in_keys \in SeqsUpTo(InListingKeys, MaxInKeys)
  /\ marker_keys \in SeqsUpTo(MarkerListingKeys, MaxMarkerKeys)
  /\ input_dates = {}
  /\ done_dates = {}
  /\ missing_dates = <<>>
  /\ idx = 1
  /\ processed = 0
  /\ df = NoTable
  /\ groups = <<>>
  /\ futures = <<>>
  /\ outputs_written = <<>>
  /\ done_order = <<>>
  /\ finished0 = {}
  /\ ustate = <<>>
  /\ calls = {}

\* Lines 135-138.
DiffKeys ==
  /\ pc = "diff"
  /\ input_dates' = extract_dates_from_keys(in_keys)
  /\ done_dates' = extract_dates_from_marker_keys(marker_keys)
  /\ missing_dates' =
       sorted(extract_dates_from_keys(in_keys)
                \ extract_dates_from_marker_keys(marker_keys))
  /\ pc' = "diffed"
  /\ UNCHANGED <<cfg, store, run, in_keys, marker_keys, idx, processed, df, groups,
                 futures, outputs_written, done_order, finished0, ustate,
                 calls, prev>>

NextDiff == DiffKeys

SpecDiff == InitDiff /\ [][NextDiff]_vars

(***************************************************************************)
(* Claims.                                                                 *)
(***************************************************************************)
\* The unit identifiers a key names, stated on the key itself: d is one when
\* the key is p + d + suffix, d holds no "/" and p is empty or ends in "/".
UnitIds(k, suffix) ==
  {SubSeq(k, i, Len(k) - Len(suffix)) :
     i \in {n \in 1..(Len(k) - Len(suffix) + 1) :
              /\ SubSeq(k, Len(k) - Len(suffix) + 1, Len(k)) = suffix
              /\ \A m \in n..(Len(k) - Len(suffix)) : k[m] # "/"
              /\ (n = 1 \/ k[n - 1] = "/")}}

UnitIdsOf(keys, suffix) == UNION {UnitIds(keys[i], suffix) : i \in 1..Len(keys)}

\* C4: once the diff is computed, missing_dates lists exactly the unit
\* identifiers named by the input keys and by no marker key, in strictly
\* ascending order (so without duplicates), whatever repeated keys or keys
\* of another suffix the listings hold.
C4_DiffCorrect ==
  pc # "diff" =>
    /\ Range(missing_dates) =
         UnitIdsOf(in_keys, DotParquet) \ UnitIdsOf(marker_keys, DotJson)
    /\ \A i, j \in 1..Len(missing_dates) :
         i < j => StrLess(missing_dates[i], missing_dates[j])

C4_Witness ==
  /\ pc = "diffed"
  /\ missing_dates = <<<<"1", "0">>, <<"2">>>>
  /\ Len(in_keys) = 4
  /\ Cardinality(Range(in_keys)) = 4
  /\ Cardinality(input_dates) = 3
  /\ done_dates \cap input_dates # {}

HasInput(d) == <<IN_BUCKET, InKey(d)>> \in DOMAIN store
TableOf(d)  == store[<<IN_BUCKET, InKey(d)>>].table
Pos(d)      == CHOOSE i \in 1..Len(missing_dates) : missing_dates[i] = d
Units       == DOMAIN ustate

\* The store calls of this run made for unit d: those whose key names d.
CallsOf(d) ==
  {c \in calls : d \in UnitIds(c.key, DotParquet) \cup UnitIds(c.key, DotJson)}
PutsOf(d) == {c \in CallsOf(d) : c.op = "put"}
PutCall(key, ok) ==
  [op |-> "put", bucket |-> OUT_BUCKET, key |-> key, ok |-> ok]
MarkerPutIssued(d) == \E c \in calls : c.op = "put" /\ c.key = MarkerKey(d)

\* The objects of the store written for unit d.
PartsOf(d) ==
  {x \in DOMAIN store : store[x].type = "part" /\ store[x].date = d}
HasMarker(d) == <<OUT_BUCKET, MarkerKey(d)>> \in DOMAIN store

AllDone == \A i \in 1..Len(futures) : futures[i].st = "done"

\* The key values (not the missing ones) that occur in column Item_ID.
KeyValues == ItemIDs \cup {<<"C">>}

DistinctItemIDs(t) ==
  {v \in KeyValues : \E i \in 1..t.nrows : t.Item_ID[i] = v}

\* No unit after position idx has been touched in this run.
LaterUnitsUntouched ==
  \A j \in (idx + 1)..Len(missing_dates) :
    /\ ustate[missing_dates[j]] = "Pending"
    /\ CallsOf(missing_dates[j]) = {}

\* Control is at the loop head right after unit d, or the run has returned.
MovedOnFrom(d) ==
  /\ idx > Pos(d)
  /\ (/\ idx = Pos(d) + 1
      /\ (idx > Len(missing_dates) \/ ustate[missing_dates[idx]] = "Pending"))
       => pc \in {"loop", "done"}

\* This run has listed the store.
Listed == pc # "start" /\ in_keys # <<>>

\* C1: the marker put of a unit starts only when every group of the unit
\* has been submitted and every submitted write has succeeded; and whenever
\* a marker put has been issued for a unit in this run, each partition of
\* that unit has a successful put in this run and no failed one.
C1_MarkerAfterAllWrites ==
  /\ pc = "mark" =>
       /\ groups = <<>>
       /\ AllDone
       /\ Len(futures) = Cardinality(DistinctItemIDs(df))
  /\ \A d \in Units :
       MarkerPutIssued(d) =>
         /\ \A k \in DistinctItemIDs(TableOf(d)) :
              /\ PutCall(OutKey(k, d), TRUE) \in calls
              /\ PutCall(OutKey(k, d), FALSE) \notin calls
              /\ <<OUT_BUCKET, OutKey(k, d)>> \in DOMAIN store

C1_Witness ==
  \E d \in Units :
    /\ ustate[d] = "Marked"
    /\ HasMarker(d)
    /\ Cardinality(PutsOf(d)) = 3

\* C2: while a partition write of unit u has failed, the run is still in
\* u's pool or has aborted (it is never back at the loop, at the marker or
\* returned), no marker put was issued for u and no marker of u is stored,
\* and no later unit has been loaded, written or marked.
C2_WriteFailureAborts ==
  \A i \in 1..Len(futures) :
    futures[i].st = "failed" =>
      /\ idx <= Len(missing_dates)
      /\ futures[i].date = date
      /\ pc \in {"pool", "collect", "unwind", "aborted"}
      /\ ustate[date] \in {"Partitioned", "Aborted"}
      /\ pc = "aborted" => ustate[date] = "Aborted"
      /\ ~MarkerPutIssued(date)
      /\ ~HasMarker(date)
      /\ LaterUnitsUntouched

C2_Witness ==
  /\ pc = "aborted"
  /\ idx < Len(missing_dates)
  /\ \E i, j \in 1..Len(futures) :
       futures[i].st = "failed" /\ futures[j].st = "done"

\* C3: in a run that follows a run which returned with every outstanding
\* unit marked, the outstanding list is empty and no put-object is issued.
C3_SecondRunWritesNothing ==
  (/\ run > 1
   /\ prev.pc = "done"
   /\ \A d \in DOMAIN prev.ustate : prev.ustate[d] = "Marked")
  =>
    /\ missing_dates = <<>>
    /\ {c \in calls : c.op = "put"} = {}
    /\ pc \in {"start", "loop", "done", "aborted"}
    /\ Listed => \A d \in DOMAIN prev.ustate : d \in done_dates

C3_Witness ==
  /\ run = 2
  /\ pc = "done"
  /\ prev.pc = "done"
  /\ Cardinality(DOMAIN prev.ustate) = 2
  /\ \A d \in DOMAIN prev.ustate : prev.ustate[d] = "Marked"
  /\ Cardinality(input_dates) = 2

\* C5: once every group of the loaded table has been submitted, the
\* partitions are non-empty, hold one key value each, are pairwise disjoint
\* and together hold every row of the table.
C5_PartitionsCoverTable ==
  (pc \in {"collect", "unwind", "mark"}) =>
    /\ \A i \in 1..Len(futures) :
         /\ futures[i].Item_ID_df.rows # <<>>
         /\ \A r \in Range(futures[i].Item_ID_df.rows) :
              df.Item_ID[r] = futures[i].Item_ID_df.Item_ID
    /\ \A i, j \in 1..Len(futures) :
         i # j => Range(futures[i].Item_ID_df.rows)
                    \cap Range(futures[j].Item_ID_df.rows) = {}
    /\ UNION {Range(futures[i].Item_ID_df.rows) : i \in 1..Len(futures)}
         = 1..df.nrows

\* C6: every marker in the store has output_count equal to the number of
\* distinct key values in the unit's input table and to the length of its
\* outputs list.
Markers == {x \in DOMAIN store : store[x].type = "marker"}

C6_OutputCountFaithful ==
  \A x \in Markers :
    LET doc == store[x].doc
    IN  /\ HasInput(doc.date)
        /\ doc.output_count = Cardinality(DistinctItemIDs(TableOf(doc.date)))
        /\ doc.output_count = Len(doc.outputs)

C6_Witness ==
  \E x \in Markers :
    /\ store[x].doc.output_count = 2
    /\ TableOf(store[x].doc.date).nrows = MaxRows

\* The locations of unit d's partitions.
LocationsOf(d) ==
  {S3Url(OUT_BUCKET, OutKey(k, d)) : k \in DistinctItemIDs(TableOf(d))}

\* The object a location names was written for unit d.
LocationStored(loc, d) ==
  \E x \in PartsOf(d) : S3Url(x[1], x[2]) = loc

\* Unit d was marked by this run.
MarkedNow(d) == d \in Units /\ ustate[d] = "Marked"

LocationsExact(doc) ==
  /\ Range(doc.outputs) = LocationsOf(doc.date)
  /\ Len(doc.outputs) = Cardinality(Range(doc.outputs))
  /\ \A loc \in Range(doc.outputs) : LocationStored(loc, doc.date)
  /\ MarkedNow(doc.date) =>
       \A k \in DistinctItemIDs(TableOf(doc.date)) :
         PutCall(OutKey(k, doc.date), TRUE) \in calls

\* Position of future i's location in the outputs of the marker document.
OutPos(i) ==
  CHOOSE n \in 1..Len(marker_doc.outputs) :
    marker_doc.outputs[n] = S3Url(OUT_BUCKET, futures[i].out_key)
DonePos(i) == CHOOSE n \in 1..Len(done_order) : done_order[n] = i

\* C7 as stated: the outputs list of a marker holds exactly the locations of
\* the unit's partitions, each once, each a stored object put in this
\* processing, and the document handed to put_json lists them in the order
\* in which the tasks finished.
C7_OutputsInCompletionOrder ==
  /\ \A x \in Markers : LocationsExact(store[x].doc)
  /\ pc = "mark" =>
       \A i, j \in 1..Len(futures) :
         DonePos(i) < DonePos(j) => OutPos(i) < OutPos(j)

\* C7 amended: the outputs list of a marker holds exactly the locations of
\* the unit's partitions, each once, each a stored object put in this
\* processing; in the document handed to put_json the tasks already
\* finished when as_completed is called come first, in no particular order,
\* and the others follow in finishing order.
C7_OutputsExact ==
  /\ \A x \in Markers : LocationsExact(store[x].doc)
  /\ pc = "mark" =>
       /\ Range(marker_doc.outputs) =
            {S3Url(OUT_BUCKET, futures[i].out_key) : i \in 1..Len(futures)}
       /\ \A i, j \in 1..Len(futures) :
            /\ (i \in finished0 /\ j \notin finished0) => OutPos(i) < OutPos(j)
            /\ (i \notin finished0 /\ j \notin finished0
                  /\ DonePos(i) < DonePos(j)) => OutPos(i) < OutPos(j)

\* A marker written by this run whose outputs are not in submission order.
C7_Witness ==
  \E x \in Markers :
    /\ MarkedNow(store[x].doc.date)
    /\ Len(store[x].doc.outputs) = 2
    /\ store[x].doc.outputs[1] =
         S3Url(OUT_BUCKET, OutKey(<<"B">>, store[x].doc.date))

\* C8: a unit whose input holds a table of zero rows, once loaded, is
\* SkippedEmpty: no put is issued for it, no output and no marker of it is
\* stored, control goes on to the next unit, and the next run lists it as
\* outstanding again.
C8_EmptySkipped ==
  /\ \A d \in Units :
       (HasInput(d) /\ TableOf(d).nrows = 0) =>
         /\ ustate[d] \in {"Pending", "SkippedEmpty", "Aborted"}
         /\ [op |-> "get", bucket |-> IN_BUCKET, key |-> InKey(d), ok |-> TRUE]
              \in calls => ustate[d] = "SkippedEmpty"
         /\ PutsOf(d) = {}
         /\ PartsOf(d) = {}
         /\ ~HasMarker(d)
         /\ ustate[d] = "SkippedEmpty" => MovedOnFrom(d)
  /\ \A d \in DOMAIN prev.ustate :
       (prev.ustate[d] = "SkippedEmpty" /\ Listed) =>
         d \in Range(missing_dates)

C8_Witness ==
  /\ run = 2
  /\ pc = "done"
  /\ \E d \in Units \cap DOMAIN prev.ustate :
       /\ prev.ustate[d] = "SkippedEmpty"
       /\ ustate[d] = "SkippedEmpty"
       /\ TableOf(d).nrows = 0
       /\ "Item_ID" \in TableOf(d).columns
       /\ \E e \in Units : Pos(e) > Pos(d) /\ ustate[e] = "Marked"

\* C9: a unit whose input object is absent when it is read is
\* SkippedMissing: the get reports no such key, no put is issued for it, no
\* output and no marker of it is stored, the run is not aborted by it and
\* control goes on to the next unit.
C9_MissingSkipped ==
  \A d \in Units :
    ~HasInput(d) =>
      /\ ustate[d] \in {"Pending", "SkippedMissing"}
      /\ PutsOf(d) = {}
      /\ PartsOf(d) = {}
      /\ ~HasMarker(d)
      /\ ustate[d] = "SkippedMissing" =>
           /\ [op |-> "get", bucket |-> IN_BUCKET, key |-> InKey(d),
               ok |-> FALSE] \in calls
           /\ MovedOnFrom(d)

C9_Witness ==
  /\ pc = "done"
  /\ \E d \in Units :
       /\ ~HasInput(d)
       /\ ustate[d] = "SkippedMissing"
       /\ \E e \in Units : Pos(e) > Pos(d) /\ ustate[e] = "Marked"

LoadedOk(d) ==
  [op |-> "get", bucket |-> IN_BUCKET, key |-> InKey(d), ok |-> TRUE] \in calls

SchemaAbort(d) ==
  /\ ustate[d] = "Aborted"
  /\ pc = "aborted"
  /\ date = d
  /\ PutsOf(d) = {}
  /\ ~HasMarker(d)
  /\ LaterUnitsUntouched

\* C10 as stated: every loaded table without the column Item_ID aborts the
\* run, a table of zero rows included.
C10_EveryTableWithoutItemIDAborts ==
  \A d \in Units :
    (HasInput(d) /\ LoadedOk(d) /\ "Item_ID" \notin TableOf(d).columns)
      => SchemaAbort(d)

\* C10 amended: every loaded table that is not empty (it has a row and a
\* column) and lacks the column Item_ID aborts the run at once: no put for
\* the unit, no marker, no later unit touched.  An empty table is skipped
\* before the column is looked for.
C10_NonEmptyTableWithoutItemIDAborts ==
  \A d \in Units :
    (/\ HasInput(d)
     /\ LoadedOk(d)
     /\ TableOf(d).nrows > 0
     /\ TableOf(d).columns # {}
     /\ "Item_ID" \notin TableOf(d).columns)
      => SchemaAbort(d)

C10_Witness ==
  /\ pc = "aborted"
  /\ idx < Len(missing_dates)
  /\ HasInput(date)
  /\ LoadedOk(date)
  /\ "Item_ID" \notin TableOf(date).columns
  /\ ustate[date] = "Aborted"

\* C11: once a marker object is stored, it is never mutated and no later
\* put-object, in this run or in a later one, targets its key: every step
\* leaves each stored marker as it is and issues no put on a stored marker's
\* key.
C11_MarkerNeverRewritten ==
  [][\A x \in Markers :
       /\ x \in DOMAIN store'
       /\ store'[x] = store[x]
       /\ \A c \in calls' \ calls :
            ~(c.op = "put" /\ c.bucket = x[1] /\ c.key = x[2])]_vars

\* A later run has marked a unit while the marker another unit got in the
\* run before is stored.
C11_Witness ==
  /\ run = 2
  /\ pc = "done"
  /\ \E d \in DOMAIN prev.ustate :
       /\ prev.ustate[d] = "Marked"
       /\ HasMarker(d)
       /\ d \notin Units
  /\ \E e \in Units : ustate[e] = "Marked" /\ HasMarker(e)

TerminalOk == {"Marked", "SkippedMissing", "SkippedEmpty"}
InFlight   == {i \in 1..Len(futures) : futures[i].st \in {"pending", "running"}}

\* C12: the outstanding units are taken in strictly ascending identifier
\* order and one at a time: every unit before the current one has reached
\* Marked, SkippedMissing or SkippedEmpty, no unit after it has been loaded,
\* written or marked, every write task belongs to the current unit, and a
\* write task is pending or running only inside that unit's pool.
C12_OneUnitAtATime ==
  /\ \A i, j \in 1..Len(missing_dates) :
       i < j => StrLess(missing_dates[i], missing_dates[j])
  /\ \A j \in 1..Len(missing_dates) :
       /\ j < idx => ustate[missing_dates[j]] \in TerminalOk
       /\ j > idx => /\ ustate[missing_dates[j]] = "Pending"
                     /\ CallsOf(missing_dates[j]) = {}
  /\ futures # <<>> =>
       /\ idx <= Len(missing_dates)
       /\ \A i \in 1..Len(futures) : futures[i].date = date
  /\ InFlight # {} => PoolOpen

\* Two writes of the second unit run at the same time, the first unit
\* being marked.
C12_Witness ==
  /\ idx = 2
  /\ Len(missing_dates) >= 2
  /\ ustate[missing_dates[1]] = "Marked"
  /\ Cardinality(Running) = 2
  /\ \A i \in Running : futures[i].date = missing_dates[2]

\* The identifiers of the units of the store of the model.
StoreDates == {Date0, Date1, Date2}

\* The output keys of unit d's partitions, and those stored for d.
ExpectedOutKeys(d) == {OutKey(k, d) : k \in DistinctItemIDs(TableOf(d))}
StoredOutKeys(d)   == {x[2] : x \in PartsOf(d)}

\* A store call of this run has failed: a listing raised, or a get of a
\* stored object or a put returned an error (a get of an absent object is
\* the benign NoSuchKey).
StoreFailure ==
  \/ pc = "aborted" /\ in_keys = <<>> /\ calls = {}
  \/ \E c \in calls :
       /\ ~c.ok
       /\ (c.op = "put" \/ <<c.bucket, c.key>> \in DOMAIN store)

\* The marker put of unit d has failed in this run.
MarkerPutFailed(d) == PutCall(MarkerKey(d), FALSE) \in calls

\* The run has aborted on the marker put of d: no retry, no later unit
\* touched, every partition of d stored and no marker of d.
AbortedAtMarker(d) ==
  /\ pc = "aborted"
  /\ ustate[d] = "Aborted"
  /\ date = d
  /\ PutCall(MarkerKey(d), TRUE) \notin calls
  /\ ~HasMarker(d)
  /\ LaterUnitsUntouched
  /\ StoredOutKeys(d) = ExpectedOutKeys(d)
  /\ \A k \in ExpectedOutKeys(d) : PutCall(k, TRUE) \in calls

\* In the run after the marker put of d failed: d is outstanding again, the
\* partition puts go to the output keys already stored for d and to no
\* other, and d's marker put starts only after each of them was put again.
ReprocessedAlike(d) ==
  /\ Listed => d \in Range(missing_dates)
  /\ StoredOutKeys(d) = ExpectedOutKeys(d)
  /\ \A c \in PutsOf(d) : c.key \in ExpectedOutKeys(d) \cup {MarkerKey(d)}
  /\ MarkerPutIssued(d) =>
       \A k \in ExpectedOutKeys(d) : PutCall(k, TRUE) \in calls

\* C13: a failed marker put of unit u aborts the run with u's partitions
\* stored and no marker of u; the next run lists u as outstanding and
\* re-writes its partitions to the same keys; and unless a store call of
\* that run fails, u's marker is eventually stored.
C13_MarkerFailureRecovered ==
  /\ [](\A d \in Units : MarkerPutFailed(d) => AbortedAtMarker(d))
  /\ [](\A d \in prev.mark_failed : ReprocessedAlike(d))
  /\ \A d \in StoreDates :
       (run > 1 /\ d \in prev.mark_failed) ~> (HasMarker(d) \/ StoreFailure)

\* The run after a failed marker put has put the partitions of the unit
\* again and has marked it.
C13_Witness ==
  /\ run > 1
  /\ \E d \in prev.mark_failed :
       /\ d \in Units
       /\ ustate[d] = "Marked"
       /\ HasMarker(d)
       /\ Cardinality(ExpectedOutKeys(d)) >= 2
       /\ \A k \in ExpectedOutKeys(d) : PutCall(k, TRUE) \in calls

\* The units named by the stored keys of a bucket under a prefix with a
\* suffix.
StoredUnits(bucket, prefix, suffix) ==
  UNION {UnitIds(x[2], suffix) :
           x \in {y \in DOMAIN store :
                    y[1] = bucket /\ StartsWith(y[2], prefix)}}

\* The units this run has written a marker for.
MarkedUnits == {d \in Units : ustate[d] = "Marked"}

\* C14: when the run returns, the summary holds the number of distinct
\* units named by the input keys, the number of distinct units that had a
\* marker before the run, the outstanding units in ascending order, and the
\* number of units this run wrote a marker for, skipped units not counted.
C14_SummaryFaithful ==
  pc = "done" =>
    /\ summary.input_files =
         Cardinality(StoredUnits(IN_BUCKET, in_prefix, DotParquet))
    /\ summary.output_files =
         Cardinality(StoredUnits(OUT_BUCKET, marker_prefix, DotJson)
                       \ MarkedUnits)
    /\ Range(summary.missing_dates) =
         StoredUnits(IN_BUCKET, in_prefix, DotParquet)
           \ (StoredUnits(OUT_BUCKET, marker_prefix, DotJson) \ MarkedUnits)
    /\ \A i, j \in 1..Len(summary.missing_dates) :
         i < j => StrLess(summary.missing_dates[i], summary.missing_dates[j])
    /\ summary.processed_days = Cardinality(MarkedUnits)
    /\ summary.processed_days =
         Cardinality({d \in Units : PutCall(MarkerKey(d), TRUE) \in calls})
    /\ summary.processed_days <= Len(summary.missing_dates)

\* A run that found one unit done, skipped a unit and marked another.
C14_Witness ==
  /\ pc = "done"
  /\ summary.input_files = 3
  /\ summary.output_files = 1
  /\ Len(summary.missing_dates) = 2
  /\ summary.processed_days = 1

\* C15: the write tasks of a unit are one per partition (no key value is
\* submitted twice, and once the groupby loop has ended there is a task for
\* each key value of the table), and at every moment at most MAX_WORKERS of
\* them are running, also when the unit has more partitions than that.
C15_ConcurrencyCapped ==
  /\ Cardinality(Running) <= MAX_WORKERS
  /\ \A i, j \in 1..Len(futures) :
       i # j => futures[i].Item_ID_df.Item_ID # futures[j].Item_ID_df.Item_ID
  /\ PoolOpen =>
       \A i \in 1..Len(futures) :
         futures[i].Item_ID_df.Item_ID \in DistinctItemIDs(df)
  /\ pc \in {"collect", "unwind", "mark"} =>
       Len(futures) = Cardinality(DistinctItemIDs(df))

\* Every worker is busy while a submitted task waits in the queue.
C15_Witness ==
  /\ groups = <<>>
  /\ Len(futures) > MAX_WORKERS
  /\ Cardinality(Running) = MAX_WORKERS
  /\ \E i \in 1..Len(futures) : futures[i].st = "pending"

\* The positions a unit's futures can have.
TaskIds == 1..Cardinality(KeyValues)

\* A step of a submitted task that has not finished: it stays a future of
\* the unit, a queued task can only start, a running one can only end with
\* its object stored or with its own failure, and in either case with its
\* put-object issued.
TaskKept(i) ==
  /\ i <= Len(futures')
  /\ futures'[i].out_key = futures[i].out_key
  /\ futures[i].st = "pending" => futures'[i].st \in {"pending", "running"}
  /\ futures[i].st = "running" =>
       /\ futures'[i].st \in {"running", "done", "failed"}
       /\ futures'[i].st = "done" =>
            /\ <<OUT_BUCKET, futures[i].out_key>> \in DOMAIN store'
            /\ PutCall(futures[i].out_key, TRUE) \in calls'
       /\ futures'[i].st = "failed" =>
            PutCall(futures[i].out_key, FALSE) \in calls'

\* C16: no submitted write task is cancelled: a task that has not finished
\* is never dropped or ended from outside, and it does finish, with its
\* object stored or with its own failure, also after a sibling has failed
\* and the control thread has left the loop over the results.
C16_NoCancellation ==
  /\ [][\A i \in InFlight : TaskKept(i)]_vars
  /\ \A i \in TaskIds : (i \in InFlight) ~> (i \in Finished)
  /\ \A i \in TaskIds :
       (pc = "unwind" /\ i \in InFlight) ~> (pc = "unwind" /\ i \in Finished)

\* An aborted unit has left a partition object in the store, written by a
\* task whose result was never collected, and has no marker.
C16_Witness ==
  /\ pc = "aborted"
  /\ futures # <<>>
  /\ ustate[date] = "Aborted"
  /\ ~HasMarker(date)
  /\ \E i, j \in 1..Len(futures) :
       /\ futures[i].st = "failed"
       /\ futures[j].st = "done"
       /\ ~futures[j].seen
       /\ <<OUT_BUCKET, futures[j].out_key>> \in PartsOf(date)

\* A partition write of the current unit has failed and its failure has
\* been raised to the control thread.
WriteFailureRaised ==
  \E i \in 1..Len(futures) : futures[i].st = "failed" /\ futures[i].seen

\* C19: when a partition write failure has aborted the run, every write
\* task submitted for the unit has finished, each with its put-object
\* issued; and once the run is aborted no step changes the store or issues
\* a put.
C19_AbortAfterJoin ==
  /\ []((pc = "aborted" /\ WriteFailureRaised) =>
          /\ groups = <<>>
          /\ Finished = 1..Len(futures)
          /\ \A i \in 1..Len(futures) :
               PutCall(futures[i].out_key, futures[i].st = "done") \in calls)
  /\ [][pc = "aborted" =>
          /\ store' = store
          /\ {c \in calls' : c.op = "put"} \subseteq calls]_vars

\* The run was aborted by the failure of the task that finished first,
\* raised while as_completed was waiting, and the other task has finished
\* too.
C19_Witness ==
  /\ pc = "aborted"
  /\ Len(futures) = 2
  /\ finished0 = {}
  /\ Len(done_order) = 2
  /\ futures[done_order[1]].st = "failed"
  /\ futures[done_order[1]].seen
  /\ futures[done_order[2]].st = "done"

\* {OUT_PREFIX}{keyValue}/{unit}.parquet, written out, the prefix being p.
KeyUnder(p, k, d) == NormalizePrefix(p) \o k \o <<"/">> \o d \o DotParquet

PartitionKey(k, d) == KeyUnder(OUT_PREFIX, k, d)

\* Key values and unit identifiers beyond those of the stores of the model:
\* empty ones, longer ones, key values that hold the separator.
SomeKeyValues ==
  KeyValues \cup {<<>>, <<"A", "B">>, <<"A", "/", "B">>, <<"A", "/">>,
                  <<"/", "B">>, <<"1">>, <<"B", "/", "1">>}
SomeUnits == StoreDates \cup {<<>>, <<"1", "2">>, <<"B">>, <<"A", "B">>}

\* Under either output prefix the key names one (unit, key value) only.
PartitionKeyInjective ==
  \A p \in {SeparateConfig.OUT_PREFIX, SharedConfig.OUT_PREFIX} :
    \A k1, k2 \in SomeKeyValues : \A d1, d2 \in SomeUnits :
      KeyUnder(p, k1, d1) = KeyUnder(p, k2, d2) => (k1 = k2 /\ d1 = d2)

\* C17: every write task targets {OUT_PREFIX}{keyValue}/{unit}.parquet for
\* its own key value and unit; that key names one (unit, key value) only;
\* no two tasks of a unit target the same key; and every partition object
\* in the store, whichever unit and run wrote it, is the one of the unit
\* and key value its key names (no write of another task has landed on it).
C17_OutKeysUnique ==
  /\ \A i \in 1..Len(futures) :
       futures[i].out_key =
         PartitionKey(futures[i].Item_ID_df.Item_ID, futures[i].date)
  /\ \A i, j \in 1..Len(futures) :
       i # j => futures[i].out_key # futures[j].out_key
  /\ PartitionKeyInjective
  /\ \A d \in StoreDates : \A k \in KeyValues :
       <<OUT_BUCKET, PartitionKey(k, d)>> \in DOMAIN store =>
         /\ store[<<OUT_BUCKET, PartitionKey(k, d)>>].type = "part"
         /\ store[<<OUT_BUCKET, PartitionKey(k, d)>>].date = d
         /\ store[<<OUT_BUCKET, PartitionKey(k, d)>>].Item_ID = k
  /\ \A x \in DOMAIN store :
       store[x].type = "part" =>
         x = <<OUT_BUCKET, PartitionKey(store[x].Item_ID, store[x].date)>>

\* Two units of two partitions each have been written: four objects under
\* four keys.
C17_Witness ==
  /\ Cardinality(PartsOf(Date1)) = 2
  /\ Cardinality(PartsOf(Date2)) = 2
  /\ HasMarker(Date1)
  /\ HasMarker(Date2)

\* The input of unit d is present, has rows and has the key column.
GoodInput(d) ==
  /\ HasInput(d)
  /\ ~empty(TableOf(d))
  /\ "Item_ID" \in TableOf(d).columns

\* The run has ended on a table that has rows and no key column.
AbortedOnSchema ==
  /\ pc = "aborted"
  /\ idx <= Len(missing_dates)
  /\ ustate[date] = "Aborted"
  /\ HasInput(date)
  /\ ~empty(TableOf(date))
  /\ "Item_ID" \notin TableOf(date).columns

\* A started run ends: it is aborted, or it returns with every outstanding
\* unit Marked, SkippedMissing or SkippedEmpty.
RunEnds ==
  (pc = "start") ~>
    (\/ pc = "aborted"
     \/ pc = "done" /\ \A d \in Units : ustate[d] \in TerminalOk)

\* Within a run a unit that has reached a terminal state keeps it.
TerminalKept ==
  [][\A d \in Units :
       (ustate[d] \in TerminalOk \cup {"Aborted"} /\ run' = run)
         => (d \in DOMAIN ustate' /\ ustate'[d] = ustate[d])]_vars

\* C18 as stated: every run ends, each outstanding unit in one terminal
\* state, and whenever the run has ended with no store call failed, every
\* outstanding unit whose input is present, non-empty and has the key
\* column is Marked.
C18_EveryGoodUnitMarked ==
  /\ RunEnds
  /\ TerminalKept
  /\ []((pc \in {"done", "aborted"} /\ ~StoreFailure) =>
          \A d \in Units : GoodInput(d) => ustate[d] = "Marked")

\* C18 amended: every run ends, each outstanding unit in one terminal
\* state; a run that returns has had no store call fail and has Marked
\* exactly the outstanding units whose input is present, non-empty and has
\* the key column; a run that is aborted with no store call failed has met
\* a non-empty table without the key column, and has Marked every such
\* unit before that table and none after it.
C18_RunTerminates ==
  /\ RunEnds
  /\ TerminalKept
  /\ [](pc = "done" =>
          /\ ~StoreFailure
          /\ \A d \in Units :
               /\ ustate[d] \in TerminalOk
               /\ GoodInput(d) <=> ustate[d] = "Marked")
  /\ []((pc = "aborted" /\ ~StoreFailure) =>
          /\ AbortedOnSchema
          /\ \A j \in 1..Len(missing_dates) :
               /\ j < idx =>
                    /\ ustate[missing_dates[j]] \in TerminalOk
                    /\ GoodInput(missing_dates[j])
                         <=> ustate[missing_dates[j]] = "Marked"
               /\ j > idx => ustate[missing_dates[j]] = "Pending")

\* A run has returned after a unit of each kind: one skipped as missing,
\* one marked, one skipped as empty.
C18_Witness ==
  /\ pc = "done"
  /\ ~StoreFailure
  /\ {ustate[d] : d \in Units} = TerminalOk

(***************************************************************************)
(* C20: the frame of a run.                                                *)
(***************************************************************************)
\* The objects the run listed as its input.
ListedInputs == {<<IN_BUCKET, k>> : k \in Range(in_keys)}

\* The partition keys and the marker key of unit d.
UnitPutKeys(d) == {OutKey(k, d) : k \in KeyValues} \cup {MarkerKey(d)}

\* The stored partitions and the stored marker of unit d.
UnitObjects(d) ==
  {x \in DOMAIN store :
     /\ x[1] = OUT_BUCKET
     /\ x[2] \in UnitPutKeys(d)}

\* C20: every put-object of a run targets a partition key or the marker key
\* of a unit that was outstanding when the run listed the store; for a unit
\* that had a marker then, the run issues no get, no partition write and no
\* marker write and leaves its partitions and its marker as they are; and no
\* step writes to or deletes an input object.
C20_FrameRespected ==
  [][/\ \A c \in calls' \ calls :
          /\ c.op = "put" =>
               /\ c.bucket = OUT_BUCKET
               /\ \E d \in Range(missing_dates) : c.key \in UnitPutKeys(d)
               /\ <<c.bucket, c.key>> \notin ListedInputs
          /\ \A d \in done_dates :
               /\ c.op = "get" => c.key # InKey(d)
               /\ c.op = "put" => c.key \notin UnitPutKeys(d)
     /\ \A d \in done_dates : \A x \in UnitObjects(d) :
          x \in DOMAIN store' /\ store'[x] = store[x]
     /\ \A x \in ListedInputs \cap DOMAIN store :
          x \in DOMAIN store' /\ store'[x] = store[x]]_vars

====
